---- MODULE Spec2Model ----
(***************************************************************************)
(* Delivery tracking service (src/delivery_service/main.py): the           *)
(* subscriber registry ConnectionManager, the websocket_tracking handler,  *)
(* the movement simulator simulate_drone_movement and the route planner    *)
(* generate_waypoints.                                                     *)
(*                                                                         *)
(* The service runs on one asyncio event loop: the code between two await  *)
(* expressions of a coroutine runs without interleaving, so every action   *)
(* below is one such stretch of code.                                      *)
(***************************************************************************)
EXTENDS Integers, Sequences, FiniteSets, TLC

\* ------------------------------------------------------------------ bounds
MaxOrders == 2      \* order ids 1..MaxOrders
MaxSockets == 2     \* WebSocket objects 1..MaxSockets
MaxTasks == 2       \* tasks that publish (simulation runs, callers of broadcast)
MaxRoute == 2       \* waypoints of a route handed to a simulation run, at most
MaxPoints == 3      \* num_points given to generate_waypoints, at most

Orders == 1..MaxOrders
Sockets == 1..MaxSockets
Tasks == 1..MaxTasks

\* ------------------------------------------------------------------- state
VARIABLES
    active_connections, \* ConnectionManager.active_connections: a dict, order_id -> list of WebSocket
    client,             \* per WebSocket object, its peer: "new" (not accepted), "open", "closed"
    sent,               \* per WebSocket object, the send_json calls made on it, in order
    bc,                 \* per task, the activation of ConnectionManager.broadcast it is (or was last) in
    raised,             \* the exception the last ConnectionManager call raised to its caller, or "none"
    run,                \* per task, the simulate_drone_movement coroutine it runs
    tracking,           \* table delivery_tracking, in commit order
    published,          \* the calls of ConnectionManager.broadcast, in order
    gw,                 \* a call of generate_waypoints: its arguments and what came of it
    routes,             \* table delivery_routes, in commit order
    http,               \* the HTTP request handled last: what was asked, the answer, what it wrote
    history,            \* drone service: table drone_status_history, in commit order
    maintenance,        \* drone service: table drone_maintenance, in commit order
    alerts,             \* drone service: table drone_alerts, in commit order
    post,               \* drone service: per request slot, the update_drone_status call in it
    upd,                \* per task, the update_position call it runs
    performance,        \* drone service: table drone_performance, one row per drone at most
    battery_logs        \* drone service: table drone_battery_logs, in commit order

vars == <<active_connections, client, sent, bc, raised, run, tracking, published, gw,
          routes, http, history, maintenance, alerts, post, upd, performance, battery_logs>>

\* the tables and requests of the HTTP endpoints
ext == <<routes, http, history, maintenance, alerts, post, upd, performance, battery_logs>>

\* --------------------------------------------------------------- sequences
\* x in list
InList(s, x) == \E k \in 1..Len(s) : s[k] = x

\* list.remove(x): drops the first element equal to x (the caller has checked x is there)
ListRemove(s, x) ==
    LET k == CHOOSE j \in 1..Len(s) : s[j] = x /\ \A h \in 1..(j - 1) : s[h] # x
    IN  SubSeq(s, 1, k - 1) \o SubSeq(s, k + 1, Len(s))

\* ------------------------------------------------- binary64 arithmetic
\* Python floats are IEEE-754 binary64. A finite float is held here as the dyadic
\* rational it denotes, [neg, man, exp] = (-1)^neg * man * 2^exp, in canonical form
\* (man odd, or man = 0 with exp = 0 and neg = FALSE), so that equality of records is
\* Python's == on floats. man is an arbitrary-precision natural, a little-endian
\* sequence of limbs below LimbBase with no leading zero limb. Each operation is
\* the exact one followed by rounding to MantBits bits, nearest, ties to even. The
\* exponent range is not limited (no overflow, no subnormals): coordinates, ratios and
\* battery levels stay far inside it.
LimbBits == 15
LimbBase == 32768
MantBits == 53

RECURSIVE BigNorm(_)
BigNorm(a) ==
    IF a = <<>> THEN a
    ELSE IF a[Len(a)] = 0 THEN BigNorm(SubSeq(a, 1, Len(a) - 1)) ELSE a

RECURSIVE BigFromInt(_)
BigFromInt(n) == IF n = 0 THEN <<>> ELSE <<n % LimbBase>> \o BigFromInt(n \div LimbBase)

RECURSIVE BigToInt(_)
BigToInt(a) == IF a = <<>> THEN 0 ELSE a[1] + LimbBase * BigToInt(Tail(a))

Limb(a, k) == IF k <= Len(a) THEN a[k] ELSE 0

RECURSIVE AddFrom(_, _, _, _)
AddFrom(a, b, k, c) ==
    IF k > Len(a) /\ k > Len(b) THEN (IF c = 0 THEN <<>> ELSE <<c>>)
    ELSE LET s == Limb(a, k) + Limb(b, k) + c
         IN  <<s % LimbBase>> \o AddFrom(a, b, k + 1, s \div LimbBase)

BigAdd(a, b) == AddFrom(a, b, 1, 0)

RECURSIVE SubFrom(_, _, _, _)
SubFrom(a, b, k, borrow) ==
    IF k > Len(a) THEN <<>>
    ELSE LET d == Limb(a, k) - Limb(b, k) - borrow
         IN  IF d < 0 THEN <<d + LimbBase>> \o SubFrom(a, b, k + 1, 1)
             ELSE <<d>> \o SubFrom(a, b, k + 1, 0)

\* a - b for a >= b
BigSub(a, b) == BigNorm(SubFrom(a, b, 1, 0))

RECURSIVE CmpFrom(_, _, _)
CmpFrom(a, b, k) ==
    IF k = 0 THEN 0
    ELSE IF a[k] > b[k] THEN 1
    ELSE IF a[k] < b[k] THEN -1
    ELSE CmpFrom(a, b, k - 1)

\* -1, 0, 1 as a < b, a = b, a > b
BigCmp(a, b) ==
    IF Len(a) > Len(b) THEN 1
    ELSE IF Len(a) < Len(b) THEN -1
    ELSE CmpFrom(a, b, Len(a))

RECURSIVE MulSmallFrom(_, _, _, _)
MulSmallFrom(a, m, k, c) ==
    IF k > Len(a) THEN (IF c = 0 THEN <<>> ELSE <<c>>)
    ELSE LET p == a[k] * m + c
         IN  <<p % LimbBase>> \o MulSmallFrom(a, m, k + 1, p \div LimbBase)

\* a * m for 0 <= m < LimbBase
BigMulSmall(a, m) == BigNorm(MulSmallFrom(a, m, 1, 0))

BigShlLimbs(a, n) == IF a = <<>> THEN <<>> ELSE [k \in 1..n |-> 0] \o a

RECURSIVE MulFrom(_, _, _)
MulFrom(a, b, k) ==
    IF k > Len(b) THEN <<>>
    ELSE BigAdd(BigShlLimbs(BigMulSmall(a, b[k]), k - 1), MulFrom(a, b, k + 1))

BigMul(a, b) == BigNorm(MulFrom(a, b, 1))

RECURSIVE DivRec(_, _, _, _)
DivRec(a, m, k, r) ==
    IF k = 0 THEN [q |-> <<>>, r |-> r]
    ELSE LET cur  == r * LimbBase + a[k]
             rest == DivRec(a, m, k - 1, cur % m)
         IN  [q |-> Append(rest.q, cur \div m), r |-> rest.r]

\* quotient and remainder of a by m, for 0 < m <= LimbBase
BigDivSmall(a, m) ==
    LET d == DivRec(a, m, Len(a), 0) IN [q |-> BigNorm(d.q), r |-> d.r]

\* a * 2^n and floor(a / 2^n)
BigShl(a, n) == BigShlLimbs(BigMulSmall(a, 2 ^ (n % LimbBits)), n \div LimbBits)

BigShr(a, n) ==
    IF n \div LimbBits >= Len(a) THEN <<>>
    ELSE BigDivSmall(SubSeq(a, n \div LimbBits + 1, Len(a)), 2 ^ (n % LimbBits)).q

RECURSIVE IntBitLen(_)
IntBitLen(x) == IF x = 0 THEN 0 ELSE 1 + IntBitLen(x \div 2)

BigBitLen(a) == IF a = <<>> THEN 0 ELSE LimbBits * (Len(a) - 1) + IntBitLen(a[Len(a)])

RECURSIVE IntTrailingZeros(_)
IntTrailingZeros(x) == IF x % 2 = 1 THEN 0 ELSE 1 + IntTrailingZeros(x \div 2)

\* the number of trailing zero bits of a > 0
RECURSIVE BigTrailingZeros(_)
BigTrailingZeros(a) ==
    IF a[1] = 0 THEN LimbBits + BigTrailingZeros(Tail(a)) ELSE IntTrailingZeros(a[1])

FZero == [neg |-> FALSE, man |-> <<>>, exp |-> 0]

\* the canonical form of (-1)^neg * man * 2^exp
DyCanon(neg, man, exp) ==
    IF man = <<>> THEN FZero
    ELSE LET z == BigTrailingZeros(man)
         IN  [neg |-> neg, man |-> BigShr(man, z), exp |-> exp + z]

\* exact sum and product of two dyadic rationals
DyAdd(x, y) ==
    LET e  == IF x.exp < y.exp THEN x.exp ELSE y.exp
        mx == BigShl(x.man, x.exp - e)
        my == BigShl(y.man, y.exp - e)
        c  == BigCmp(mx, my)
    IN  IF x.neg = y.neg THEN DyCanon(x.neg, BigAdd(mx, my), e)
        ELSE IF c = 0 THEN FZero
        ELSE IF c = 1 THEN DyCanon(x.neg, BigSub(mx, my), e)
        ELSE DyCanon(y.neg, BigSub(my, mx), e)

DyNeg(x) == IF x.man = <<>> THEN x ELSE [x EXCEPT !.neg = ~x.neg]

DyMul(x, y) == DyCanon(x.neg # y.neg, BigMul(x.man, y.man), x.exp + y.exp)

\* rounding to the nearest float, ties to the even mantissa
RoundNearestEven(x) ==
    LET len  == BigBitLen(x.man)
        s    == len - MantBits
        q    == BigShr(x.man, s)
        rem  == BigSub(x.man, BigShl(q, s))
        c    == BigCmp(rem, BigShl(<<1>>, s - 1))
        up   == c = 1 \/ (c = 0 /\ q[1] % 2 = 1)
    IN  IF len <= MantBits THEN x
        ELSE DyCanon(x.neg, IF up THEN BigAdd(q, <<1>>) ELSE q, x.exp + s)

\* float + float, float - float, float * float
FAdd(x, y) == RoundNearestEven(DyAdd(x, y))
FSub(x, y) == RoundNearestEven(DyAdd(x, DyNeg(y)))
FMul(x, y) == RoundNearestEven(DyMul(x, y))

\* float(n) for an int n, and the float m * 2^e for an int m
FromInt(n) == IF n < 0 THEN DyCanon(TRUE, BigFromInt(-n), 0) ELSE DyCanon(FALSE, BigFromInt(n), 0)
FScaled(m, e) == LET f == FromInt(m) IN IF f.man = <<>> THEN f ELSE [f EXCEPT !.exp = @ + e]

\* int / int for ints i >= 0 and 0 < n < LimbBase: Python's true division is correctly
\* rounded. The quotient is taken with DivGuardBits extra bits and a sticky bit.
DivGuardBits == 90
FDivInt(i, n) ==
    LET d == BigDivSmall(BigShl(BigFromInt(i), DivGuardBits), n)
        m == BigAdd(BigMulSmall(d.q, 2), IF d.r = 0 THEN <<>> ELSE <<1>>)
    IN  RoundNearestEven(DyCanon(FALSE, m, -(DivGuardBits + 1)))

\* int(x) for a float x >= 0: truncation
FTruncToInt(x) ==
    IF x.exp >= 0 THEN BigToInt(BigShl(x.man, x.exp)) ELSE BigToInt(BigShr(x.man, -x.exp))

\* float / float, correctly rounded, for a divisor whose odd mantissa is below LimbBase
\* (100, and the small ints that become floats here) and is not zero
FDiv(x, y) ==
    IF x.man = <<>> THEN FZero
    ELSE LET d == BigDivSmall(BigShl(x.man, DivGuardBits), y.man[1])
             m == BigAdd(BigMulSmall(d.q, 2), IF d.r = 0 THEN <<>> ELSE <<1>>)
         IN  RoundNearestEven(DyCanon(x.neg # y.neg, m, x.exp - y.exp - (DivGuardBits + 1)))

\* int(x) for any float x: truncation towards zero
PyInt(x) == IF x.neg THEN -FTruncToInt([x EXCEPT !.neg = FALSE]) ELSE FTruncToInt(x)

\* i / n for ints of either sign, n # 0 and |n| < LimbBase
PyTrueDiv(i, n) ==
    LET q == FDivInt(IF i < 0 THEN -i ELSE i, IF n < 0 THEN -n ELSE n)
    IN  IF (i < 0) # (n < 0) THEN DyNeg(q) ELSE q

\* ------------------------------------------------------- ConnectionManager
\* self.active_connections[order_id], the list object the dict holds ([] stands for a missing key
\* only where the caller has tested the key)
ConnList(conns, o) == IF o \in DOMAIN conns THEN conns[o] ELSE <<>>

\* connect, after websocket.accept() has returned: create the key if missing, append
RegistryAfterConnect(conns, ws, o) ==
    [k \in DOMAIN conns \cup {o} |->
        IF k = o THEN Append(ConnList(conns, o), ws) ELSE conns[k]]

\* disconnect: the exception it raises. list.remove raises ValueError when the element is
\* not in the list; a missing key is skipped by the if.
DisconnectRaises(conns, ws, o) ==
    IF o \in DOMAIN conns /\ ~InList(conns[o], ws) THEN "ValueError" ELSE "none"

\* disconnect: the registry it leaves
RegistryAfterDisconnect(conns, ws, o) ==
    IF o \in DOMAIN conns /\ InList(conns[o], ws)
    THEN [conns EXCEPT ![o] = ListRemove(conns[o], ws)]
    ELSE conns

\* A broadcast activation. pc: "idle" (never called), "sending" (suspended in
\* await connection.send_json for connection cur), "returned", "raised".
\* idx is the list iterator's position (the 1-based index of the element it yields next).
\* call is the call's place in published; it names the call and is read by no action.
IdleBroadcast == [pc |-> "idle", order |-> 0, msg |-> <<>>, idx |-> 0, cur |-> 0, call |-> 0]

\* for connection in self.active_connections[order_id]: the iterator's next step on the
\* live list. It yields list[idx] while idx is within the list's current length.
IterNext(b, conns) ==
    IF b.idx <= Len(ConnList(conns, b.order))
    THEN [b EXCEPT !.pc = "sending", !.cur = ConnList(conns, b.order)[b.idx], !.idx = b.idx + 1]
    ELSE [b EXCEPT !.pc = "returned", !.cur = 0]

\* broadcast(order_id, message) up to its first await: the key test, then the loop's first step
BroadcastEnter(conns, o, m, call) ==
    LET b0 == [pc |-> "sending", order |-> o, msg |-> m, idx |-> 1, cur |-> 0, call |-> call]
    IN  IF o \in DOMAIN conns THEN IterNext(b0, conns) ELSE [b0 EXCEPT !.pc = "returned"]

\* the entry of published for a call: who called, with what, and the list's contents then
PublishedEntry(conns, t, o, m) ==
    [task |-> t, order |-> o, msg |-> m, atcall |-> ConnList(conns, o)]

\* connection.send_json(message) hands one frame to the server's send callable. With
\* an open peer the frame is written ("sent"). With a closed peer the outcome is the
\* server's: its send callable raises, and so does send_json ("raised"), or it drops
\* the frame and send_json returns ("dropped").
SendJson(cl, ws) == IF cl[ws] = "open" THEN {"sent"} ELSE {"raised", "dropped"}

\* send_json returned to broadcast's try block
SendOk(out) == out # "raised"

\* the outcomes of the next send_json on ws, log being the calls made so far: a
\* server whose send callable has raised for a connection raises for it from then on
SendNext(cl, log, ws) ==
    {out \in SendJson(cl, ws) :
        (\E k \in 1..Len(log[ws]) : ~log[ws][k].ok) => out = "raised"}

\* the record of one send_json call on a connection: the message, the broadcast call
\* it belongs to, whether the call returned (ok) and whether the frame was written
SendEntry(b, out) == [msg |-> b.msg, call |-> b.call, ok |-> SendOk(out), frame |-> out = "sent"]

\* try: await connection.send_json(message) / except: pass -- then the loop goes on
NoExceptBug(b, conns, ok) ==
    IF ok THEN IterNext(b, conns) ELSE [b EXCEPT !.pc = "raised", !.cur = 0]

AfterSend(b, conns, ok) == IterNext(b, conns)

\* ------------------------------------------------------ generate_waypoints
\* the float a decimal literal digits * 10^-places denotes (correctly rounded, as
\* Python reads it), for 0 <= places
RECURSIVE DivPow10(_, _, _)
DivPow10(a, places, sticky) ==
    IF places = 0 THEN [q |-> a, sticky |-> sticky]
    ELSE LET d == BigDivSmall(a, 10)
         IN  DivPow10(d.q, places - 1, sticky \/ d.r # 0)

FDecimal(neg, digits, places) ==
    LET d == DivPow10(BigShl(BigFromInt(digits), DivGuardBits), places, FALSE)
        m == BigAdd(BigMulSmall(d.q, 2), IF d.sticky THEN <<1>> ELSE <<>>)
    IN  RoundNearestEven(DyCanon(neg, m, -(DivGuardBits + 1)))

\* seconds of the whole trip in estimated_time
TotalSeconds == 60

\* the waypoint of loop index i
Waypoint(start_lat, start_lng, end_lat, end_lng, num_points, i) ==
    LET ratio == FDivInt(i, num_points)
    IN  [sequence       |-> i,
         latitude       |-> FAdd(start_lat, FMul(FSub(end_lat, start_lat), ratio)),
         longitude      |-> FAdd(start_lng, FMul(FSub(end_lng, start_lng), ratio)),
         estimated_time |-> FTruncToInt(FMul(FDivInt(i, num_points), FromInt(TotalSeconds)))]

\* range(num_points + 1) has num_points + 1 elements, none when num_points < 0
RangeOffByOneBug(num_points) == IF num_points < 1 THEN 0 ELSE num_points

RangeLen(num_points) == IF num_points + 1 < 0 THEN 0 ELSE num_points + 1

\* generate_waypoints: what it returns or raises. With num_points = 0 the first
\* pass of the loop divides 0 by 0; with num_points < 0 the loop body never runs.
generate_waypoints(start_lat, start_lng, end_lat, end_lng, num_points) ==
    IF num_points = 0
    THEN [raised |-> "ZeroDivisionError", returned |-> FALSE, waypoints |-> <<>>]
    ELSE [raised |-> "none", returned |-> TRUE,
          waypoints |-> [k \in 1..RangeLen(num_points) |->
                          Waypoint(start_lat, start_lng, end_lat, end_lng, num_points, k - 1)]]

\* ------------------------------------------------- simulate_drone_movement
\* battery = 100.0 and battery -= 0.5
BatteryFull == FromInt(100)
BatteryStep == FScaled(1, -1)

\* A run. pc: "idle" (no task), "ready" (task created, not yet run), "sending"
\* (inside manager.broadcast), "sleeping" (in asyncio.sleep(2)), "done", "failed".
\* i is enumerate's index of the next waypoint. close says when the Session the run
\* was given is closed under it: "never", or one of CloseInputs.
IdleRun ==
    [pc |-> "idle", order_id |-> 0, drone_id |-> 0, waypoints |-> <<>>, i |-> 0, battery |-> FZero,
     close |-> "never"]

NewRun(o, d, wps) ==
    [pc |-> "ready", order_id |-> o, drone_id |-> d, waypoints |-> wps, i |-> 0,
     battery |-> BatteryFull, close |-> "never"]

\* simulate_delivery hands the task its own Session and the DeliveryRoute objects of
\* its query (line 507). get_db closes that Session once the request is over
\* (149), in a worker thread, while the event loop goes on to the task: where the
\* close falls among the statements of the task's first pass is not fixed.
\* SessionLocal (25) expires every object of the Session at db.commit();
\* db.close() detaches them, and an expired, detached object raises
\* DetachedInstanceError when an attribute is read.
\*   "before_add":   before db.add (526) of the first pass: the rows are detached
\*                   while loaded, no commit expires them, the Session is used again
\*   "after_commit": between db.commit() (528) and the message of the first pass
\*   "after_pass":   after the message of the first pass was built (531-544)
\* A close that overlaps db.commit() itself is not followed further.
CloseInputs == {"before_add", "after_commit", "after_pass"}

\* what the pass for waypoint r.i raises: nothing ("none"), DetachedInstanceError at
\* waypoint.latitude of the message (535) after the row was committed ("message"),
\* or at waypoint.latitude of the row (520) before anything is stored ("row")
PassRaises(r) ==
    IF r.close = "after_commit" /\ r.i = 0 THEN "message"
    ELSE IF r.close = "after_pass" /\ r.i >= 1 THEN "row"
    ELSE "none"

\* status="in_flight" if i < len(waypoints)-1 else "landing"
StepStatusBug(r) == IF r.i < Len(r.waypoints) THEN "in_flight" ELSE "landing"

StepStatus(r) == IF r.i < Len(r.waypoints) - 1 THEN "in_flight" ELSE "landing"

\* the DeliveryTracking row of the step (id and timestamp, which the database sets,
\* are left out)
TrackingRow(r) ==
    [order_id      |-> r.order_id,
     drone_id      |-> r.drone_id,
     latitude      |-> r.waypoints[r.i + 1].latitude,
     longitude     |-> r.waypoints[r.i + 1].longitude,
     altitude      |-> 50 + (r.i % 10),
     speed         |-> 25 + (r.i % 15),
     battery_level |-> r.battery,
     status        |-> StepStatus(r)]

\* the message of the step
StepEvent(r) ==
    [type            |-> "position_update",
     order_id        |-> r.order_id,
     drone_id        |-> r.drone_id,
     latitude        |-> r.waypoints[r.i + 1].latitude,
     longitude       |-> r.waypoints[r.i + 1].longitude,
     altitude        |-> TrackingRow(r).altitude,
     speed           |-> TrackingRow(r).speed,
     battery_level   |-> r.battery,
     status          |-> TrackingRow(r).status,
     waypoint        |-> r.i + 1,
     total_waypoints |-> Len(r.waypoints)]

\* after manager.broadcast has returned: battery -= 0.5, then await asyncio.sleep(2);
\* the for loop's next index is taken when the sleep is over
BatteryFloorBug(r) ==
    [r EXCEPT !.battery = IF FSub(@, BatteryStep).neg THEN FZero ELSE FSub(@, BatteryStep),
              !.i = @ + 1, !.pc = "sleeping"]

AfterBroadcast(r) == [r EXCEPT !.battery = FSub(@, BatteryStep), !.i = @ + 1, !.pc = "sleeping"]

\* the run once its broadcast activation b has moved on: the run awaits the
\* broadcast, so it goes on only when that has returned
RunNoAwaitBug(r, b) == AfterBroadcast(r)

RunAfter(r, b) ==
    IF b.pc = "returned" THEN AfterBroadcast(r)
    ELSE IF b.pc = "raised" THEN [r EXCEPT !.pc = "failed"]
    ELSE [r EXCEPT !.pc = "sending"]

\* DeliveryRoute rows handed to a run: n waypoints of order o, flown by drone o
RouteRows(o, n) ==
    [k \in 1..n |->
        [order_id |-> o, drone_id |-> o, waypoint_sequence |-> k - 1,
         latitude |-> FromInt(k), longitude |-> FromInt(100 + k), estimated_time |-> 0]]

\* ------------------------------------------------------------------ actions
\* Order ids are taken into use in the order 1, 2, ...: an order is in use once a
\* connection, a run or a broadcast names it.
OrderUsed(o) ==
    \/ o \in DOMAIN active_connections
    \/ \E t \in Tasks : run[t].order_id = o \/ bc[t].order = o
OrderNext(o) == \A p \in Orders : p < o => OrderUsed(p)

\* websocket_tracking up to its loop: manager.connect(websocket, order_id), that is
\* websocket.accept() and the registration. The loop that follows only awaits
\* asyncio.sleep(1), which changes nothing and never raises WebSocketDisconnect (that
\* exception comes from a receive call, and the handler makes none): the except
\* clause with manager.disconnect is not reached.
Connect(ws, o) ==
    /\ client[ws] = "new"
    /\ \A w \in Sockets : w < ws => client[w] # "new"    \* objects are used in the order 1, 2, ...
    /\ OrderNext(o)
    /\ client' = [client EXCEPT ![ws] = "open"]
    /\ active_connections' = RegistryAfterConnect(active_connections, ws, o)
    /\ raised' = "none"
    /\ UNCHANGED <<sent, bc, run, tracking, published, gw>>
    /\ UNCHANGED ext

\* the peer of an accepted WebSocket goes away
ClientClose(ws) ==
    /\ client[ws] = "open"
    /\ client' = [client EXCEPT ![ws] = "closed"]
    /\ UNCHANGED <<active_connections, sent, bc, raised, run, tracking, published, gw>>
    /\ UNCHANGED ext

\* a call of manager.disconnect(websocket, order_id)
Disconnect(ws, o) ==
    /\ raised' = DisconnectRaises(active_connections, ws, o)
    /\ active_connections' = RegistryAfterDisconnect(active_connections, ws, o)
    /\ UNCHANGED <<client, sent, bc, run, tracking, published, gw>>
    /\ UNCHANGED ext

\* a call of manager.broadcast(order_id, message) by a task that is not a simulation run
Broadcast(t, o) ==
    /\ bc[t].pc = "idle"
    /\ run[t].pc = "idle"
    /\ \A u \in Tasks : u < t => bc[u].pc # "idle"       \* tasks are used in the order 1, 2, ...
    /\ OrderNext(o)
    /\ LET m == [type |-> "position_update", order_id |-> o]
       IN  /\ bc' = [bc EXCEPT ![t] =
                        BroadcastEnter(active_connections, o, m, Len(published) + 1)]
           /\ published' = Append(published, PublishedEntry(active_connections, t, o, m))
    /\ raised' = "none"
    /\ UNCHANGED <<active_connections, client, sent, run, tracking, gw>>
    /\ UNCHANGED ext

\* the send_json that broadcast awaits completes, and the loop goes on to its next await
Send(t) ==
    /\ bc[t].pc = "sending"
    /\ run[t].pc = "idle"
    /\ \E out \in SendNext(client, sent, bc[t].cur) :
       LET b  == bc[t]
           nb == AfterSend(b, active_connections, SendOk(out))
       IN  /\ sent' = [sent EXCEPT ![b.cur] = Append(@, SendEntry(b, out))]
           /\ bc' = [bc EXCEPT ![t] = nb]
           /\ raised' = IF nb.pc = "raised" THEN "Exception" ELSE "none"
    /\ UNCHANGED <<active_connections, client, run, tracking, published, gw>>
    /\ UNCHANGED ext

\* A task is given the coroutine simulate_drone_movement(order_id, drone_id,
\* waypoints, db) with a list of n route rows handed to it as waypoints and a Session
\* that stays open. This is the bare coroutine: the endpoint that makes this call with
\* the rows of the route query and its own Session, or answers 404, is SimulateDelivery.
SimCreate(t, o, n) ==
    /\ run[t].pc = "idle"
    /\ bc[t].pc = "idle"
    /\ \A u \in Tasks : u < t => run[u].pc # "idle"      \* tasks are used in the order 1, 2, ...
    /\ OrderNext(o)
    /\ run' = [run EXCEPT ![t] = NewRun(o, RouteRows(o, n)[1].drone_id, RouteRows(o, n))]
    /\ UNCHANGED <<active_connections, client, sent, bc, raised, tracking, published, gw>>
    /\ UNCHANGED ext

\* one pass of the loop up to its first await: db.add, db.commit, then manager.broadcast
\* up to its first send_json (or, with nobody to send to, on to asyncio.sleep)
SimStep(t) ==
    /\ run[t].pc \in {"ready", "sleeping"}
    /\ run[t].i < Len(run[t].waypoints)
    /\ PassRaises(run[t]) = "none"
    /\ LET r == run[t]
           b == BroadcastEnter(active_connections, r.order_id, StepEvent(r), Len(published) + 1)
       IN  /\ tracking' = Append(tracking, TrackingRow(r))
           /\ published' = Append(published,
                    PublishedEntry(active_connections, t, r.order_id, StepEvent(r)))
           /\ bc' = [bc EXCEPT ![t] = b]
           /\ run' = [run EXCEPT ![t] = RunAfter(r, b)]
    /\ UNCHANGED <<active_connections, client, sent, raised, gw>>
    /\ UNCHANGED ext

\* a pass of the loop that raises DetachedInstanceError: the exception leaves the
\* coroutine and the task ends; when it is raised by the message, the row of the
\* pass is stored already and manager.broadcast is not called
SimRaise(t) ==
    /\ run[t].pc \in {"ready", "sleeping"}
    /\ run[t].i < Len(run[t].waypoints)
    /\ PassRaises(run[t]) # "none"
    /\ tracking' = IF PassRaises(run[t]) = "message"
                   THEN Append(tracking, TrackingRow(run[t])) ELSE tracking
    /\ run' = [run EXCEPT ![t].pc = "failed"]
    /\ UNCHANGED <<active_connections, client, sent, bc, raised, published, gw>>
    /\ UNCHANGED ext

\* the send_json that the run's broadcast awaits completes
SimSend(t) ==
    /\ run[t].pc = "sending"
    /\ bc[t].pc = "sending"
    /\ \E out \in SendNext(client, sent, bc[t].cur) :
       LET b  == bc[t]
           nb == AfterSend(b, active_connections, SendOk(out))
       IN  /\ sent' = [sent EXCEPT ![b.cur] = Append(@, SendEntry(b, out))]
           /\ bc' = [bc EXCEPT ![t] = nb]
           /\ run' = [run EXCEPT ![t] = RunAfter(run[t], nb)]
    /\ UNCHANGED <<active_connections, client, raised, tracking, published, gw>>
    /\ UNCHANGED ext

\* the loop is over: the completion message is printed and the task ends
SimFinish(t) ==
    /\ run[t].pc \in {"ready", "sleeping"}
    /\ run[t].i >= Len(run[t].waypoints)
    /\ run' = [run EXCEPT ![t].pc = "done"]
    /\ UNCHANGED <<active_connections, client, sent, bc, raised, tracking, published, gw>>
    /\ UNCHANGED ext

\* a call of generate_waypoints with the arguments held in gw
GwIdle ==
    [pc |-> "idle", start_lat |-> FZero, start_lng |-> FZero, end_lat |-> FZero,
     end_lng |-> FZero, num_points |-> 1,
     result |-> [raised |-> "none", returned |-> FALSE, waypoints |-> <<>>]]

GenerateWaypoints ==
    /\ gw.pc = "call"
    /\ gw' = [gw EXCEPT !.pc = "done",
                        !.result = generate_waypoints(gw.start_lat, gw.start_lng,
                                                      gw.end_lat, gw.end_lng, gw.num_points)]
    /\ UNCHANGED <<active_connections, client, sent, bc, raised, run, tracking, published>>
    /\ UNCHANGED ext

\* ------------------------------------------------- delivery service requests
\* What the Authorization header and the user service make of a request:
\* "missing" is no header or one that does not start with "Bearer ", "rejected" is
\* a token the user service answers with a status other than 200, "unreachable" is
\* a user service that cannot be reached (client.get raises), and a role is a token
\* the user service answers with 200 and the user of that role.
Roles == {"admin", "restaurant", "customer"}
AuthInputs == {"missing", "rejected", "unreachable"} \cup Roles

\* verify_token: raises 401 without a bearer header, returns the user on a 200
\* answer and None on any other answer and on any exception
verify_token(auth) ==
    [raised |-> IF auth = "missing" THEN 401 ELSE 0,
     user   |-> [some |-> auth \in Roles, role |-> IF auth \in Roles THEN auth ELSE "none"]]

\* What the order service makes of GET /orders/{order_id}: "ok" is a 200 answer
\* with the order, "non200" any other answer, "unreachable" an exception of client.get.
LookupInputs == {"ok", "non200", "unreachable"}

\* the try block around the lookup: the HTTPException(404) raised for an answer
\* other than 200 is caught by the bare except, like an exception of client.get,
\* and both become HTTPException(503)
OrderLookup(lookup) == IF lookup = "ok" THEN 0 ELSE 503

\* The order documents of the order service. has_drone: the document has a drone_id
\* that is not null (without it order.get("drone_id") is None, and drone_id here is 0);
\* has_place: it has the four coordinate keys; has_battery: it has battery_level.
NoPlace == [restaurant_lat |-> FZero, restaurant_lng |-> FZero,
            delivery_lat |-> FZero, delivery_lng |-> FZero]

OrderInputs ==
    {[has_drone |-> FALSE, drone_id |-> 0, has_place |-> FALSE, place |-> NoPlace,
      has_battery |-> FALSE, battery_level |-> FZero],
     [has_drone |-> TRUE, drone_id |-> 7, has_place |-> FALSE, place |-> NoPlace,
      has_battery |-> FALSE, battery_level |-> FZero],
     [has_drone |-> TRUE, drone_id |-> 7, has_place |-> TRUE,
      place |-> [restaurant_lat |-> FDecimal(TRUE, 78573007, 6),
                 restaurant_lng |-> FDecimal(FALSE, 106660172, 6),
                 delivery_lat   |-> FDecimal(FALSE, 25216795, 6),
                 delivery_lng   |-> FDecimal(FALSE, 106701758, 6)],
      has_battery |-> TRUE, battery_level |-> FromInt(80)]}

\* order.get("restaurant_lat", 10.762622) and the three lines after it
DefaultPlace ==
    [restaurant_lat |-> FDecimal(FALSE, 10762622, 6),
     restaurant_lng |-> FDecimal(FALSE, 106660172, 6),
     delivery_lat   |-> FDecimal(FALSE, 10775845, 6),
     delivery_lng   |-> FDecimal(FALSE, 106701758, 6)]

OrderPlace(order) == IF order.has_place THEN order.place ELSE DefaultPlace

\* generate_waypoints(start_lat, start_lng, end_lat, end_lng, num_points=15)
TrackingPoints == 15

\* waypoints = generate_waypoints(...), for each of the order documents
OrderWaypoints ==
    [order \in OrderInputs |->
        LET at == OrderPlace(order)
        IN  generate_waypoints(at.restaurant_lat, at.restaurant_lng,
                               at.delivery_lat, at.delivery_lng, TrackingPoints).waypoints]

\* the DeliveryRoute rows of start_tracking, one per waypoint, in list order
NewRouteRows(order_id, order) ==
    LET wps == OrderWaypoints[order]
    IN  [k \in 1..Len(wps) |->
            [order_id |-> order_id, drone_id |-> order.drone_id,
             waypoint_sequence |-> wps[k].sequence,
             latitude |-> wps[k].latitude, longitude |-> wps[k].longitude,
             estimated_time |-> wps[k].estimated_time]]

\* order.get("battery_level", 100)
InitialBatteryBug(order) == FromInt(100)

InitialBattery(order) == IF order.has_battery THEN order.battery_level ELSE FromInt(100)

\* the first DeliveryTracking row of an order
InitialTracking(order_id, order) ==
    [order_id      |-> order_id,
     drone_id      |-> order.drone_id,
     latitude      |-> OrderPlace(order).restaurant_lat,
     longitude     |-> OrderPlace(order).restaurant_lng,
     altitude      |-> 0,
     speed         |-> 0,
     battery_level |-> InitialBattery(order),
     status        |-> "taking_off"]

\* What a db.commit() comes to: the rows are stored, or the database refuses or is
\* lost and the commit raises.
CommitInputs == {"ok", "fail"}

\* start_tracking: the answer's status and the rows it has stored by then. The two
\* awaits (user service, order service) come before anything is read or written,
\* and the rest runs without an await.
start_tracking(order_id, auth, lookup, order, commit1, commit2) ==
    LET none == [status |-> 0, upstream |-> "not_called", routes |-> <<>>, tracking |-> <<>>]
    IN  IF verify_token(auth).raised # 0
            THEN [none EXCEPT !.status = verify_token(auth).raised]
        ELSE IF ~verify_token(auth).user.some
            THEN [none EXCEPT !.status = 401]
        ELSE IF OrderLookup(lookup) # 0
            THEN [none EXCEPT !.status = OrderLookup(lookup), !.upstream = lookup]
        ELSE IF ~order.has_drone \/ order.drone_id = 0     \* if not order.get("drone_id")
            THEN [none EXCEPT !.status = 400, !.upstream = lookup]
        ELSE IF commit1 # "ok"                       \* db.commit() of the waypoints raises
            THEN [none EXCEPT !.status = 500, !.upstream = lookup]
        ELSE \* the waypoints are stored; db.commit() of the first sample may raise
             [status   |-> IF commit2 = "ok" THEN 200 ELSE 500,
              upstream |-> lookup,
              routes   |-> NewRouteRows(order_id, order),
              tracking |-> IF commit2 = "ok" THEN <<InitialTracking(order_id, order)>>
                           ELSE <<>>]

\* a request and what came of it: status is 0 while the answer is still to come
Request(op, id, auth, upstream, status, rows, row, call) ==
    [op |-> op, id |-> id, auth |-> auth, upstream |-> upstream, status |-> status,
     rows |-> rows, row |-> row, call |-> call]

NoRequest == Request("none", 0, "missing", "not_called", 0, 0, 0, 0)

MaxStarts == 2     \* start_tracking calls that store a route

AnOrder == CHOOSE j \in OrderInputs : j.has_drone /\ ~j.has_place

\* POST /tracking/start/{order_id}
StartTracking(o, auth, lookup, order, commit1, commit2) ==
    /\ Len(routes) < MaxStarts * (TrackingPoints + 1)
    /\ \E out \in {start_tracking(o, auth, lookup, order, commit1, commit2)} :
           \* an input the call never looks at is not varied
           /\ out.upstream = "not_called" => lookup = "ok"
           /\ (out.upstream = "not_called" \/ lookup # "ok") => order = AnOrder
           /\ (out.status \in {401, 503, 400}) => commit1 = "ok"
           /\ (out.routes = <<>>) => commit2 = "ok"
           /\ routes' = routes \o out.routes
           /\ tracking' = tracking \o out.tracking
           /\ http' = Request("start_tracking", o, auth, out.upstream, out.status,
                            Len(out.routes) + Len(out.tracking), 0, 0)
    /\ UNCHANGED <<active_connections, client, sent, bc, raised, run, published, gw>>
    /\ UNCHANGED <<history, maintenance, alerts, post, upd, performance, battery_logs>>

\* db.query(DeliveryRoute).filter(order_id == order_id).order_by(waypoint_sequence).all():
\* the rows of the order by sequence number, rows of one sequence number in the
\* order of their commit
RECURSIVE RouteFrom(_, _, _)
RouteFrom(rows, o, q) ==
    IF q > TrackingPoints THEN <<>>
    ELSE SelectSeq(rows, LAMBDA r : r.order_id = o /\ r.waypoint_sequence = q)
            \o RouteFrom(rows, o, q + 1)

RouteOf(rows, o) == RouteFrom(rows, o, 0)

\* POST /simulation/start/{order_id}: 404 without a route, else the task is created
\* with the rows of the query and the Session of the request, which get_db closes
\* under the task (close); nothing is asked about the runs there already are
SimulateDeliverySingleBug(t, o, close) ==
    /\ run[t].pc = "idle" /\ bc[t].pc = "idle" /\ upd[t].pc = "idle"
    /\ \A u \in Tasks : u < t => run[u].pc # "idle"
    /\ LET waypoints == RouteOf(routes, o)
       IN  IF waypoints = <<>>
           THEN /\ http' = Request("simulate_delivery", o, "missing", "not_called", 404, 0, 0, 0)
                /\ close = "before_add"
                /\ run' = run
           ELSE IF \E u \in Tasks : run[u].order_id = o /\ run[u].pc \notin {"idle", "done", "failed"}
           THEN /\ http' = Request("simulate_delivery", o, "missing", "not_called", 409, 0, 0, 0)
                /\ run' = run
           ELSE /\ http' = Request("simulate_delivery", o, "missing", "not_called", 200, 0, 0, 0)
                /\ run' = [run EXCEPT ![t] =
                              [NewRun(o, waypoints[1].drone_id, waypoints) EXCEPT !.close = close]]
    /\ UNCHANGED <<active_connections, client, sent, bc, raised, tracking, published, gw>>
    /\ UNCHANGED <<routes, history, maintenance, alerts, post, upd, performance, battery_logs>>

SimulateDelivery(t, o, close) ==
    /\ run[t].pc = "idle" /\ bc[t].pc = "idle" /\ upd[t].pc = "idle"
    /\ \A u \in Tasks : u < t => run[u].pc # "idle"      \* tasks are used in the order 1, 2, ...
    /\ LET waypoints == RouteOf(routes, o)
       IN  IF waypoints = <<>>
           THEN /\ http' = Request("simulate_delivery", o, "missing", "not_called", 404, 0, 0, 0)
                /\ close = "before_add"                  \* no task: the close is not varied
                /\ run' = run
           ELSE /\ http' = Request("simulate_delivery", o, "missing", "not_called", 200, 0, 0, 0)
                /\ run' = [run EXCEPT ![t] =
                              [NewRun(o, waypoints[1].drone_id, waypoints) EXCEPT !.close = close]]
    /\ UNCHANGED <<active_connections, client, sent, bc, raised, tracking, published, gw>>
    /\ UNCHANGED <<routes, history, maintenance, alerts, post, upd, performance, battery_logs>>

\* The query parameters of update_position. altitude and speed default to 50.0 and
\* 30.0; battery_level and status default to None, which has_battery and has_status
\* stand for.
PositionInputs ==
    {[latitude |-> FDecimal(FALSE, 10762622, 6), longitude |-> FDecimal(FALSE, 106660172, 6),
      altitude |-> 50, speed |-> 30,
      has_battery |-> FALSE, battery_level |-> FZero, has_status |-> FALSE, status |-> "None"],
     [latitude |-> FDecimal(FALSE, 10775845, 6), longitude |-> FDecimal(FALSE, 106701758, 6),
      altitude |-> 60, speed |-> 25,
      has_battery |-> TRUE, battery_level |-> FromInt(80), has_status |-> TRUE,
      status |-> "in_flight"]}

\* What db.commit() of update_position stores: the DeliveryTracking row, with drone_id
\* = order.get("drone_id"); when that is None the column's NOT NULL refuses the row,
\* db.commit() raises IntegrityError and nothing is stored.
PositionRows(order_id, order, p) ==
    IF ~order.has_drone THEN <<>>
    ELSE <<[order_id      |-> order_id,
            drone_id      |-> order.drone_id,
            latitude      |-> p.latitude,
            longitude     |-> p.longitude,
            altitude      |-> p.altitude,
            speed         |-> p.speed,
            battery_level |-> p.battery_level,
            status        |-> p.status]>>

PositionEventBug(order_id, order, p) ==
    [type          |-> "position_update",
     order_id      |-> order_id,
     drone_id      |-> order.drone_id,
     latitude      |-> p.latitude,
     longitude     |-> p.longitude,
     altitude      |-> p.altitude,
     speed         |-> p.speed,
     battery_level |-> p.battery_level,
     status        |-> "in_flight"]

\* the message of update_position
PositionEvent(order_id, order, p) ==
    [type          |-> "position_update",
     order_id      |-> order_id,
     drone_id      |-> order.drone_id,
     latitude      |-> p.latitude,
     longitude     |-> p.longitude,
     altitude      |-> p.altitude,
     speed         |-> p.speed,
     battery_level |-> p.battery_level,
     status        |-> p.status]

\* An update_position call. pc: "idle", "sending" (inside manager.broadcast),
\* "returned" (answered); row and call are the places of its row in tracking and of
\* its broadcast in published.
IdleUpdate == [pc |-> "idle", row |-> 0, call |-> 0]

\* the call once its broadcast activation b has moved on
UpdateAfter(u, b) ==
    IF b.pc = "returned" THEN [u EXCEPT !.pc = "returned"]
    ELSE IF b.pc = "raised" THEN [u EXCEPT !.pc = "failed"]
    ELSE [u EXCEPT !.pc = "sending"]

\* the status of the answer, 0 as long as there is none
UpdateStatus(u) == IF u.pc = "returned" THEN 200 ELSE IF u.pc = "failed" THEN 500 ELSE 0

\* POST /tracking/update/{order_id} up to its first suspension inside
\* manager.broadcast (or up to its answer): the order lookup, then db.add, db.commit,
\* db.refresh, then the broadcast. The handler takes no Authorization header. An
\* order without a drone makes db.commit() raise: the answer is 500, and there is
\* neither a row nor a broadcast.
UpdatePosition(t, o, auth, lookup, order, p) ==
    /\ run[t].pc = "idle" /\ bc[t].pc = "idle" /\ upd[t].pc = "idle"
    /\ \A u \in Tasks : u < t => (run[u].pc # "idle" \/ upd[u].pc # "idle")
    /\ lookup # "ok" => order = AnOrder
    /\ (lookup # "ok" \/ ~order.has_drone) => p = CHOOSE q \in PositionInputs : ~q.has_status
    /\ IF OrderLookup(lookup) # 0
       THEN /\ http' = Request("update_position", o, auth, lookup, OrderLookup(lookup), 0, 0, 0)
            /\ UNCHANGED <<tracking, published, bc, upd>>
       ELSE IF PositionRows(o, order, p) = <<>>
       THEN /\ http' = Request("update_position", o, auth, lookup, 500, 0, 0, 0)
            /\ UNCHANGED <<tracking, published, bc, upd>>
       ELSE LET m == PositionEvent(o, order, p)
                b == BroadcastEnter(active_connections, o, m, Len(published) + 1)
                u == UpdateAfter([pc |-> "sending", row |-> Len(tracking) + 1,
                                  call |-> Len(published) + 1], b)
            IN  /\ tracking' = tracking \o PositionRows(o, order, p)
                /\ published' = Append(published, PublishedEntry(active_connections, t, o, m))
                /\ bc' = [bc EXCEPT ![t] = b]
                /\ upd' = [upd EXCEPT ![t] = u]
                /\ http' = Request("update_position", o, auth, lookup, UpdateStatus(u), 1,
                                    Len(tracking) + 1, Len(published) + 1)
    /\ UNCHANGED <<active_connections, client, sent, raised, run, gw>>
    /\ UNCHANGED <<routes, history, maintenance, alerts, post, performance, battery_logs>>

\* the send_json that the call's broadcast awaits completes
UpdateSend(t) ==
    /\ upd[t].pc = "sending"
    /\ bc[t].pc = "sending"
    /\ \E out \in SendNext(client, sent, bc[t].cur) :
       LET b  == bc[t]
           nb == AfterSend(b, active_connections, SendOk(out))
           u  == UpdateAfter(upd[t], nb)
       IN  /\ sent' = [sent EXCEPT ![b.cur] = Append(@, SendEntry(b, out))]
           /\ bc' = [bc EXCEPT ![t] = nb]
           /\ upd' = [upd EXCEPT ![t] = u]
    /\ UNCHANGED <<active_connections, client, raised, run, tracking, published, gw>>
    /\ UNCHANGED <<routes, http, history, maintenance, alerts, post, performance, battery_logs>>

\* ------------------------------------------------------------ drone service
\* (src/drone_service/main.py; its verify_token is the one of the delivery service)
MaxDrones == 2     \* drones
MaxPosts == 2      \* update_drone_status calls in flight at once
Drones == 1..MaxDrones
Posts == 1..MaxPosts

\* some values of DroneDetailedStatus
StatusInputs == {"idle", "error"}

\* What GET /drones of the order service gives get_drone_from_order_service: the
\* drone, a list without it, an answer other than 200, or an exception.
DroneLookupInputs == {"found", "absent", "non200", "unreachable"}

\* get_drone_from_order_service: the drone, or None in every other case
get_drone_from_order_service(lookup) ==
    [some |-> lookup = "found", battery_level |-> IF lookup = "found" THEN 55 ELSE 0]

\* drone.get("battery_level", 0) if drone else 0
CurrentBattery(drone) == IF drone.some THEN drone.battery_level ELSE 0

\* changed_at is the column default datetime.utcnow, read when the row is inserted.
\* Time is counted in clock readings: a row gets the reading of the row stored before
\* it when the clock has not moved between the two commits (tick = FALSE: the same
\* reading, or a DATETIME column that keeps whole seconds), else the next one.
HistoryNow(hist, tick) ==
    (IF hist = <<>> THEN 0 ELSE hist[Len(hist)].changed_at) + (IF tick THEN 1 ELSE 0)

\* latest = query(DroneStatusHistory).filter(drone_id).order_by(changed_at.desc()).first()
\* previous_status = latest.status if latest else "unknown"
\* The statuses the query may give: order_by leaves the choice among rows of equal
\* changed_at to the database engine, which DATABASE_URL names at run time.
LatestStatus(hist, d) ==
    LET mine == {k \in 1..Len(hist) : hist[k].drone_id = d}
        top  == {k \in mine : \A j \in mine : hist[j].changed_at <= hist[k].changed_at}
    IN  IF mine = {} THEN {"unknown"} ELSE {hist[k].status : k \in top}

\* a DroneStatusHistory row; previous_status and battery_level are NULL ("None", -1)
\* in the rows the maintenance endpoints write
HistoryRow(d, status, previous_status, battery_level, changed_at) ==
    [drone_id |-> d, status |-> status, previous_status |-> previous_status,
     battery_level |-> battery_level, changed_at |-> changed_at]

\* a DroneAlert row; is_resolved is the column default 0
AlertRow(d, alert_type, severity) ==
    [drone_id |-> d, alert_type |-> alert_type, severity |-> severity, is_resolved |-> 0]

\* An update_drone_status call. pc: "idle", "lookup" (awaiting
\* get_drone_from_order_service), "put" (awaiting client.put); auth is its user.
IdlePost ==
    [pc |-> "idle", drone_id |-> 0, status |-> "none", previous_status |-> "none",
     battery_level |-> 0, auth |-> "missing", upstream |-> "not_called"]

\* the role test of update_drone_status, and the one of the maintenance and alert endpoints
StatusAllowed(user) == user.some /\ user.role \in {"admin", "restaurant"}
AdminAllowed(user) == user.some /\ user.role = "admin"

MaxHistory == 3       \* rows of drone_status_history
MaxMaintenance == 1   \* rows of drone_maintenance
MaxAlerts == 2        \* rows of drone_alerts

\* the history rows there are and those the calls in flight will write
HistoryDue == Len(history) + Cardinality({q \in Posts : post[q].pc # "idle"})

\* the alert rows there are and those the calls in flight will write
AlertsDue == Len(alerts) + Cardinality({q \in Posts : post[q].pc # "idle" /\ post[q].status = "error"})

\* POST /drones/{drone_id}/status up to the await of the drone lookup: verify_token,
\* the role test, the query for the latest history row
StatusBegin(p, d, status, auth) ==
    /\ HistoryDue < MaxHistory
    /\ status = "error" => AlertsDue < MaxAlerts
    /\ post[p].pc = "idle"
    /\ \A q \in Posts : q < p => post[q].pc # "idle"    \* slots are used in the order 1, 2, ...
    /\ IF verify_token(auth).raised # 0
       THEN /\ http' = Request("update_drone_status", d, auth, "not_called",
                               verify_token(auth).raised, 0, 0, 0)
            /\ status = "idle"
            /\ post' = post
       ELSE IF ~StatusAllowed(verify_token(auth).user)
       THEN /\ http' = Request("update_drone_status", d, auth, "not_called", 403, 0, 0, 0)
            /\ status = "idle"
            /\ post' = post
       ELSE /\ http' = Request("update_drone_status", d, auth, "not_called", 0, 0, 0, 0)
            /\ \E latest \in LatestStatus(history, d) :
                  post' = [post EXCEPT ![p] =
                             [pc |-> "lookup", drone_id |-> d, status |-> status,
                              previous_status |-> latest,
                              battery_level |-> 0, auth |-> auth, upstream |-> "not_called"]]
    /\ UNCHANGED <<active_connections, client, sent, bc, raised, run, tracking, published, gw>>
    /\ UNCHANGED <<routes, history, maintenance, alerts, upd, performance, battery_logs>>

\* the drone lookup has answered: current_battery, the history row is built and
\* added to the session, and the call awaits client.put
StatusLookup(p, lookup) ==
    /\ post[p].pc = "lookup"
    /\ post' = [post EXCEPT ![p].pc = "put",
                            ![p].battery_level = CurrentBattery(get_drone_from_order_service(lookup)),
                            ![p].upstream = lookup]
    /\ http' = Request("update_drone_status", post[p].drone_id, post[p].auth, lookup, 0, 0, 0, 0)
    /\ UNCHANGED <<active_connections, client, sent, bc, raised, run, tracking, published, gw>>
    /\ UNCHANGED <<routes, history, maintenance, alerts, upd, performance, battery_logs>>

\* client.put has answered or raised (the exception is passed over): the alert row
\* for status error, then db.commit() and the answer
StatusCommit(p, put, tick) ==
    /\ post[p].pc = "put"
    /\ history = <<>> => tick
    /\ LET r == post[p]
       IN  /\ history' = Append(history,
                    HistoryRow(r.drone_id, r.status, r.previous_status, r.battery_level,
                               HistoryNow(history, tick)))
           /\ alerts' = IF r.status = "error"
                        THEN Append(alerts, AlertRow(r.drone_id, "status_error", "high"))
                        ELSE alerts
           /\ http' = Request("update_drone_status", r.drone_id, r.auth,
                              IF put = "ok" THEN r.upstream ELSE put, 200,
                              IF r.status = "error" THEN 2 ELSE 1, Len(history) + 1, 0)
           /\ post' = [post EXCEPT ![p] = IdlePost]
    /\ UNCHANGED <<active_connections, client, sent, bc, raised, run, tracking, published, gw>>
    /\ UNCHANGED <<routes, maintenance, upd, performance, battery_logs>>

\* scheduled_date of a MaintenanceCreate body: a naive datetime within the coming 24
\* hours ("soon") or after them ("later"), or a timezone-aware one ("aware", what an
\* ISO string ending in Z or in an offset parses to)
ScheduleInputs == {"soon", "later", "aware"}

\* POST /maintenance: the maintenance row is committed; then scheduled_date is
\* compared with the naive datetime.utcnow() + timedelta(hours=24). A naive date
\* within that time adds a history row in a second commit; an aware date makes the
\* comparison raise TypeError, and the answer is 500 with the maintenance row stored.
ScheduleMaintenance(d, scheduled_date, auth, tick) ==
    /\ HistoryDue < MaxHistory
    /\ Len(maintenance) < MaxMaintenance
    /\ LET v == verify_token(auth)
           st == IF v.raised # 0 THEN v.raised
                 ELSE IF ~AdminAllowed(v.user) THEN 403
                 ELSE IF scheduled_date = "aware" THEN 500 ELSE 200
           soon == st = 200 /\ scheduled_date = "soon"
       IN  /\ st \in {401, 403} => scheduled_date = "later"
           /\ (~soon \/ history = <<>>) => tick
           /\ maintenance' = IF st \in {200, 500}
                             THEN Append(maintenance, [drone_id |-> d, completed |-> FALSE])
                             ELSE maintenance
           /\ history' = IF soon
                         THEN Append(history, HistoryRow(d, "maintenance", "None", -1,
                                                         HistoryNow(history, tick)))
                         ELSE history
           /\ http' = Request("schedule_maintenance", d, auth, "not_called", st,
                              IF st \in {401, 403} THEN 0 ELSE IF soon THEN 2 ELSE 1, 0, 0)
    /\ UNCHANGED <<active_connections, client, sent, bc, raised, run, tracking, published, gw>>
    /\ UNCHANGED <<routes, alerts, post, upd, performance, battery_logs>>

\* PUT /maintenance/{maintenance_id}/complete
CompleteMaintenance(m, auth, tick) ==
    /\ HistoryDue < MaxHistory
    /\ m \in 1..(Len(maintenance) + 1)
    /\ LET v == verify_token(auth)
           st == IF v.raised # 0 THEN v.raised
                 ELSE IF ~AdminAllowed(v.user) THEN 403
                 ELSE IF m > Len(maintenance) THEN 404 ELSE 200
       IN  /\ st \in {401, 403} => m = 1
           /\ (st # 200 \/ history = <<>>) => tick
           /\ maintenance' = IF st = 200 THEN [maintenance EXCEPT ![m].completed = TRUE]
                             ELSE maintenance
           /\ history' = IF st = 200
                         THEN Append(history, HistoryRow(maintenance[m].drone_id, "idle", "None",
                                                         -1, HistoryNow(history, tick)))
                         ELSE history
           /\ http' = Request("complete_maintenance", m, auth, "not_called", st,
                              IF st = 200 THEN 2 ELSE 0, 0, 0)
    /\ UNCHANGED <<active_connections, client, sent, bc, raised, run, tracking, published, gw>>
    /\ UNCHANGED <<routes, alerts, post, upd, performance, battery_logs>>

\* ------------------------------------------- drone service: battery and alerts
MaxBatteryLogs == 1   \* rows of drone_battery_logs

\* battery_level and health_percentage of a POST /battery/log, in percent;
\* has_health: the query has a health_percentage
BatteryInputs ==
    {[battery_level |-> 80, has_health |-> FALSE, health_percentage |-> 0],
     [battery_level |-> 15, has_health |-> TRUE,  health_percentage |-> 90],
     [battery_level |-> 5,  has_health |-> TRUE,  health_percentage |-> 50],
     [battery_level |-> 80, has_health |-> TRUE,  health_percentage |-> 0]}

\* the alerts log_battery_status adds for drone d: low_battery under 20 percent, and
\* battery_health for a health_percentage that is neither None nor 0.0 and under 60
BatteryAlerts(d, b) ==
    (IF b.battery_level < 20
     THEN <<AlertRow(d, "low_battery", IF b.battery_level < 10 THEN "high" ELSE "medium")>>
     ELSE <<>>)
    \o (IF b.has_health /\ b.health_percentage # 0 /\ b.health_percentage < 60
        THEN <<AlertRow(d, "battery_health", "high")>>
        ELSE <<>>)

\* POST /battery/log: the handler has no authorization parameter, the header of the
\* request (auth) is not read
LogBatteryStatus(d, b, auth) ==
    /\ Len(battery_logs) < MaxBatteryLogs
    /\ AlertsDue + Len(BatteryAlerts(d, b)) <= MaxAlerts
    /\ battery_logs' = Append(battery_logs,
                              [drone_id |-> d, battery_level |-> b.battery_level,
                               has_health |-> b.has_health,
                               health_percentage |-> b.health_percentage])
    /\ alerts' = alerts \o BatteryAlerts(d, b)
    /\ http' = Request("log_battery_status", d, auth, "not_called", 200,
                       1 + Len(BatteryAlerts(d, b)), 0, 0)
    /\ UNCHANGED <<active_connections, client, sent, bc, raised, run, tracking, published, gw>>
    /\ UNCHANGED <<routes, history, maintenance, post, upd, performance>>

\* PUT /alerts/{alert_id}/resolve; alert ids are the positions in the table
ResolveAlert(a, auth) ==
    /\ a \in 1..(Len(alerts) + 1)
    /\ LET v == verify_token(auth)
           st == IF v.raised # 0 THEN v.raised
                 ELSE IF ~AdminAllowed(v.user) THEN 403
                 ELSE IF a > Len(alerts) THEN 404 ELSE 200
       IN  /\ st \in {401, 403} => a = 1
           /\ alerts' = IF st = 200 THEN [alerts EXCEPT ![a].is_resolved = 1] ELSE alerts
           /\ http' = Request("resolve_alert", a, auth, "not_called", st,
                              IF st = 200 THEN 1 ELSE 0, 0, 0)
    /\ UNCHANGED <<active_connections, client, sent, bc, raised, run, tracking, published, gw>>
    /\ UNCHANGED <<routes, history, maintenance, post, upd, performance, battery_logs>>

\* ------------------------------------------------ drone service: performance
MaxUpdates == 3     \* update_performance calls that store something

\* no row for the drone
NoPerformance ==
    [some |-> FALSE, total_deliveries |-> 0, total_distance_km |-> FZero,
     total_flight_time_minutes |-> 0, average_speed |-> FZero, success_rate |-> FZero,
     last_updated |-> 0]

\* datetime.utcnow(): time is counted in stored updates, so now is the latest
\* last_updated of the table
RECURSIVE LatestUpdate(_, _)
LatestUpdate(perf, d) ==
    IF d = 0 THEN 0
    ELSE LET rest == LatestUpdate(perf, d - 1)
         IN  IF perf[d].last_updated > rest THEN perf[d].last_updated ELSE rest

Clock == LatestUpdate(performance, MaxDrones)

\* the row an INSERT of DronePerformance(drone_id=...) stores: the column defaults
DefaultPerformance(now) ==
    [some |-> TRUE, total_deliveries |-> 0, total_distance_km |-> FZero,
     total_flight_time_minutes |-> 0, average_speed |-> FZero, success_rate |-> FromInt(100),
     last_updated |-> now]

\* the query parameters of update_performance: deliveries_completed is any int,
\* distance_km and flight_time_minutes are (0.0, 0) or (0.7, 7)
DeliveryInputs == {-1, 0, 1, 2}

FlightInputs ==
    {[distance_km |-> FZero, flight_time_minutes |-> 0],
     [distance_km |-> FDecimal(FALSE, 7, 1), flight_time_minutes |-> 7]}

\* (total_distance_km / total_flight_time_minutes) * 60
AverageSpeed(distance, minutes) == FMul(FDiv(distance, FromInt(minutes)), FromInt(60))

\* int(total * success_rate / 100)
ImpliedSuccesses(total, rate) == PyInt(FDiv(FMul(FromInt(total), rate), FromInt(100)))

\* (successes / total) * 100, total # 0
SuccessRate(total, rate, success) ==
    LET successes == ImpliedSuccesses(total, rate) + (IF success THEN 1 ELSE 0)
    IN  FMul(PyTrueDiv(successes, total), FromInt(100))

\* The body of update_performance on the row the query found (or none): the exception
\* it raises before db.commit(), or the row it leaves. An object built by
\* DronePerformance(drone_id=drone_id) has no column values until it is flushed (the
\* defaults are applied by the INSERT), so total_deliveries is None and += raises
\* TypeError. total is the delivery count after the increment.
update_performance(perf, deliveries_completed, flight, success, now) ==
    LET total    == perf.total_deliveries + deliveries_completed
        distance == FAdd(perf.total_distance_km, flight.distance_km)
        minutes  == perf.total_flight_time_minutes + flight.flight_time_minutes
    IN  IF ~perf.some THEN [raised |-> "TypeError", row |-> perf]
        ELSE IF deliveries_completed > 0 /\ total = 0
            THEN [raised |-> "ZeroDivisionError", row |-> perf]
        ELSE [raised |-> "none",
              row |-> [some |-> TRUE,
                       total_deliveries |-> total,
                       total_distance_km |-> distance,
                       total_flight_time_minutes |-> minutes,
                       average_speed |-> IF minutes > 0 THEN AverageSpeed(distance, minutes)
                                         ELSE perf.average_speed,
                       success_rate |-> IF deliveries_completed > 0
                                        THEN SuccessRate(total, perf.success_rate, success)
                                        ELSE perf.success_rate,
                       last_updated |-> now]]

\* GET /performance/{drone_id}: the row, created with the defaults if there is none
GetPerformance(d, commit) ==
    /\ performance[d].some => commit = "ok"
    /\ performance' = IF ~performance[d].some /\ commit = "ok"
                      THEN [performance EXCEPT ![d] = DefaultPerformance(Clock)]
                      ELSE performance
    /\ http' = Request("get_drone_performance", d, "missing", "not_called",
                       IF commit = "ok" THEN 200 ELSE 500,
                       IF ~performance[d].some /\ commit = "ok" THEN 1 ELSE 0, 0, 0)
    /\ UNCHANGED <<active_connections, client, sent, bc, raised, run, tracking, published, gw>>
    /\ UNCHANGED <<routes, history, maintenance, alerts, post, upd, battery_logs>>

\* POST /performance/{drone_id}/update
UpdatePerformance(d, deliveries_completed, flight, success, commit) ==
    /\ Clock < MaxUpdates
    /\ \E out \in {update_performance(performance[d], deliveries_completed, flight, success,
                                      Clock + 1)} :
          /\ out.raised # "none" => commit = "ok"
          /\ performance' = IF out.raised = "none" /\ commit = "ok"
                            THEN [performance EXCEPT ![d] = out.row]
                            ELSE performance
          /\ http' = Request("update_performance", d, "missing", "not_called",
                             IF out.raised = "none" /\ commit = "ok" THEN 200 ELSE 500,
                             IF out.raised = "none" /\ commit = "ok" THEN 1 ELSE 0, 0, 0)
    /\ UNCHANGED <<active_connections, client, sent, bc, raised, run, tracking, published, gw>>
    /\ UNCHANGED <<routes, history, maintenance, alerts, post, upd, battery_logs>>

\* ----------------------------------------------------------- specifications
InitService ==
    /\ active_connections = <<>>
    /\ client = [ws \in Sockets |-> "new"]
    /\ sent = [ws \in Sockets |-> <<>>]
    /\ bc = [t \in Tasks |-> IdleBroadcast]
    /\ raised = "none"
    /\ run = [t \in Tasks |-> IdleRun]
    /\ tracking = <<>>
    /\ published = <<>>
    /\ routes = <<>>
    /\ http = NoRequest
    /\ history = <<>>
    /\ maintenance = <<>>
    /\ alerts = <<>>
    /\ post = [p \in Posts |-> IdlePost]
    /\ upd = [t \in Tasks |-> IdleUpdate]
    /\ performance = [d \in Drones |-> NoPerformance]
    /\ battery_logs = <<>>

\* The ConnectionManager with WebSocket handlers and their peers, and the coroutine
\* simulate_drone_movement run by up to MaxTasks tasks over handed-over lists of
\* 1..MaxRoute route rows.
Init == InitService /\ gw = GwIdle

Next ==
    \/ \E ws \in Sockets, o \in Orders : Connect(ws, o)
    \/ \E ws \in Sockets : ClientClose(ws)
    \/ \E t \in Tasks, o \in Orders, n \in 1..MaxRoute : SimCreate(t, o, n)
    \/ \E t \in Tasks : SimStep(t)
    \/ \E t \in Tasks : SimSend(t)
    \/ \E t \in Tasks : SimFinish(t)

Spec == Init /\ [][Next]_vars

\* The same with one simulation run.
NextOne ==
    \/ \E ws \in Sockets, o \in Orders : Connect(ws, o)
    \/ \E ws \in Sockets : ClientClose(ws)
    \/ \E o \in Orders, n \in 1..MaxRoute : SimCreate(1, o, n)
    \/ SimStep(1)
    \/ SimSend(1)
    \/ SimFinish(1)

SpecOne == Init /\ [][NextOne]_vars

\* The ConnectionManager object under calls of its three methods by any caller.
NextManager ==
    \/ \E ws \in Sockets, o \in Orders : Connect(ws, o)
    \/ \E ws \in Sockets, o \in Orders : Disconnect(ws, o)
    \/ \E ws \in Sockets : ClientClose(ws)
    \/ \E t \in Tasks, o \in Orders : Broadcast(t, o)
    \/ \E t \in Tasks : Send(t)

SpecManager == Init /\ [][NextManager]_vars

\* One run of the coroutine simulate_drone_movement over a handed-over list of route
\* rows of one of these lengths, with nobody subscribed. (The endpoint
\* simulate_delivery hands it the rows start_tracking stored, 16 per call.)
MaxWaypoints == 202
RunLengths == {1, 2, 3, 16, MaxWaypoints}

NextRun ==
    \/ \E n \in RunLengths : SimCreate(1, 1, n)
    \/ SimStep(1)
    \/ SimFinish(1)

SpecRun == Init /\ [][NextRun]_vars

\* Calls of generate_waypoints.
LatInputs ==
    {FZero, FromInt(1), FromInt(64), FScaled(1, -48), FDecimal(FALSE, 10762622, 6),
     FDecimal(FALSE, 10775845, 6), FDecimal(TRUE, 78573007, 6), FDecimal(FALSE, 25216795, 6)}
LngInputs == {FDecimal(FALSE, 106660172, 6), FDecimal(FALSE, 106701758, 6)}

InitWaypoints ==
    /\ InitService
    /\ \E a \in LatInputs, b \in LatInputs, c \in LngInputs, d \in LngInputs,
          n \in (-1)..MaxPoints :
          gw = [GwIdle EXCEPT !.pc = "call", !.start_lat = a, !.end_lat = b,
                              !.start_lng = c, !.end_lng = d, !.num_points = n]

SpecWaypoints == InitWaypoints /\ [][GenerateWaypoints]_vars

\* Two requests to simulate_delivery for one tracked order, with nobody subscribed.
\* The order is tracked once, so a run has 16 waypoints; the second request comes
\* when the first run has MaxOverlap waypoints left at most, or is over.
MaxOverlap == 5

NextPair ==
    \/ routes = <<>> /\ StartTracking(1, "admin", "ok", AnOrder, "ok", "ok")
    \/ \E t \in Tasks, o \in Orders, close \in CloseInputs :
          /\ \A u \in Tasks : run[u].pc \notin {"idle", "done", "failed"} =>
                                Len(run[u].waypoints) - run[u].i <= MaxOverlap
          /\ SimulateDelivery(t, o, close)
    \/ \E t \in Tasks : SimStep(t)
    \/ \E t \in Tasks : SimRaise(t)
    \/ \E t \in Tasks : SimFinish(t)

SpecPair == Init /\ [][NextPair]_vars

\* The tracking endpoint under every answer of its collaborators and of the database.
NextTracking ==
    \E o \in Orders, auth \in AuthInputs, lookup \in LookupInputs, order \in OrderInputs,
       commit1 \in CommitInputs, commit2 \in CommitInputs :
        /\ \A q \in Orders : q < o => (\E k \in 1..Len(routes) : routes[k].order_id = q)
        /\ StartTracking(o, auth, lookup, order, commit1, commit2)

SpecTracking == Init /\ [][NextTracking]_vars

\* Position updates with WebSocket subscribers.
NextUpdate ==
    \/ \E ws \in Sockets, o \in Orders : Connect(ws, o)
    \/ \E ws \in Sockets : ClientClose(ws)
    \/ \E t \in Tasks, o \in Orders, auth \in {"missing", "admin"}, lookup \in LookupInputs,
          order \in OrderInputs, p \in PositionInputs :
          OrderNext(o) /\ UpdatePosition(t, o, auth, lookup, order, p)
    \/ \E t \in Tasks : UpdateSend(t)

SpecUpdate == Init /\ [][NextUpdate]_vars

\* The delivery service as it is wired, for a tracked order and its simulation run:
\* routes are stored by start_tracking (here with a valid token and an order with a
\* drone) and flown by the run that
\* simulate_delivery starts, with a WebSocket subscriber coming and going. The event
\* loop resumes a task whose sleep is over or whose send_json has answered or
\* raised, which is the fairness of the run's steps.
NextDelivery ==
    \/ \E o \in Orders : Connect(1, o)
    \/ ClientClose(1)
    \/ \E o \in Orders : StartTracking(o, "admin", "ok", AnOrder, "ok", "ok")
    \/ \E o \in Orders, close \in CloseInputs : SimulateDelivery(1, o, close)
    \/ SimStep(1)
    \/ SimRaise(1)
    \/ SimSend(1)
    \/ SimFinish(1)

\* What a step of run t's task does to bc, the state of its broadcast call: SimStep
\* enters a new call (its number call is new each time), SimSend moves the call past
\* one connection. No other action changes bc[t] while the run is in progress, so a
\* step that satisfies StepResumes(t) or SendResumes(t) and changes bc is a SimStep(t)
\* or SimSend(t) step, and each is enabled exactly when that action is.
StepResumes(t) ==
    /\ run[t].pc \in {"ready", "sleeping"}
    /\ run[t].i < Len(run[t].waypoints)
    /\ PassRaises(run[t]) = "none"
    /\ bc' = [bc EXCEPT ![t] = BroadcastEnter(active_connections, run[t].order_id,
                                              StepEvent(run[t]), Len(published) + 1)]

SendResumes(t) ==
    /\ run[t].pc = "sending"
    /\ bc[t].pc = "sending"
    /\ \E out \in SendNext(client, sent, bc[t].cur) :
          bc' = [bc EXCEPT ![t] = AfterSend(bc[t], active_connections, SendOk(out))]

\* The event loop resumes a task whose await has completed: asyncio.sleep(2) returns
\* after two seconds, send_json returns or raises, and what follows up to the next
\* await is synchronous: the pass that stores its row, the pass that raises, the end
\* of the loop. db.commit() here succeeds; what fails is the read of a row that the
\* closed Session has left expired. Nothing of the kind holds for the clients, which
\* may connect and close or not.
SpecDelivery ==
    /\ Init /\ [][NextDelivery]_vars
    /\ WF_bc(StepResumes(1)) /\ WF_bc(SendResumes(1))
    /\ WF_vars(SimRaise(1)) /\ WF_vars(SimFinish(1))

\* The status and maintenance endpoints of the drone service, asked without a
\* header, by a customer and by an admin.
DroneAuthInputs == {"missing", "customer", "admin"}

NextDrone ==
    \/ \E p \in Posts, d \in Drones, status \in StatusInputs, auth \in DroneAuthInputs :
          StatusBegin(p, d, status, auth)
    \/ \E p \in Posts, lookup \in {"found", "unreachable"} : StatusLookup(p, lookup)
    \/ \E p \in Posts, put \in {"ok", "unreachable"}, tick \in BOOLEAN : StatusCommit(p, put, tick)
    \/ \E d \in Drones, scheduled_date \in ScheduleInputs, auth \in DroneAuthInputs,
          tick \in BOOLEAN :
          ScheduleMaintenance(d, scheduled_date, auth, tick)
    \/ \E m \in 1..(MaxMaintenance + 1), auth \in DroneAuthInputs, tick \in BOOLEAN :
          CompleteMaintenance(m, auth, tick)

SpecDrone == Init /\ [][NextDrone]_vars

\* The endpoints of the drone service that write drone_alerts: status posts (here of
\* a drone the order service knows, each commit at a later clock reading), battery
\* logs and the resolving of alerts.
NextAlerts ==
    \/ \E p \in Posts, d \in Drones, status \in StatusInputs, auth \in {"missing", "admin"} :
          StatusBegin(p, d, status, auth)
    \/ \E p \in Posts : StatusLookup(p, "found")
    \/ \E p \in Posts : StatusCommit(p, "ok", TRUE)
    \/ \E d \in Drones, b \in BatteryInputs, auth \in {"missing", "admin"} :
          LogBatteryStatus(d, b, auth)
    \/ \E a \in 1..(MaxAlerts + 1), auth \in {"missing", "customer", "admin"} :
          ResolveAlert(a, auth)

SpecAlerts == Init /\ [][NextAlerts]_vars

\* The performance endpoints of the drone service.
NextPerformance ==
    \/ \E d \in Drones, commit \in CommitInputs : GetPerformance(d, commit)
    \/ \E d \in Drones, deliveries_completed \in DeliveryInputs, flight \in FlightInputs,
          success \in BOOLEAN, commit \in CommitInputs :
          UpdatePerformance(d, deliveries_completed, flight, success, commit)

SpecPerformance == Init /\ [][NextPerformance]_vars


\* ------------------------------------------------------------------- claims
\* the send_json calls made on ws for broadcast call c
CallCount(ws, c) == Cardinality({k \in 1..Len(sent[ws]) : sent[ws][k].call = c})

\* broadcast call c is over: no task is suspended inside it
CallComplete(c) == \A t \in Tasks : ~(bc[t].pc = "sending" /\ bc[t].call = c)

\* ws is in the list of order o
Registered(ws, o) == InList(ConnList(active_connections, o), ws)

\* 100 - 0.5 * i as a float (the value is exact)
BatteryAt(i) == FScaled(200 - i, -1)

\* C1: one run over a route of n+1 waypoints persists n+1 rows and makes n+1
\* broadcast calls, both in waypoint order, and row and event i carry the battery
\* level 100 - 0.5*i, below zero too.
C1_RunLog ==
    LET r == run[1]
    IN  /\ Len(tracking) = Len(published)
        /\ Len(tracking) = r.i
        /\ r.pc = "done" => Len(tracking) = Len(r.waypoints)
        /\ \A k \in 1..Len(tracking) :
              /\ tracking[k].latitude = r.waypoints[k].latitude
              /\ tracking[k].longitude = r.waypoints[k].longitude
              /\ tracking[k].battery_level = BatteryAt(k - 1)
              /\ published[k].msg.waypoint = k
              /\ published[k].msg.latitude = r.waypoints[k].latitude
              /\ published[k].msg.battery_level = BatteryAt(k - 1)

\* a run over MaxWaypoints waypoints is over and its last row has a negative battery level
C1_Witness ==
    /\ run[1].pc = "done"
    /\ Len(tracking) = MaxWaypoints
    /\ tracking[MaxWaypoints].battery_level.neg
    /\ published[MaxWaypoints].msg.battery_level = BatteryAt(MaxWaypoints - 1)

\* the broadcast calls of task t, as places in published
CallsOf(t) == {k \in 1..Len(published) : published[k].task = t}

\* C2: in a run every step persists its row, then calls broadcast with the event of
\* the same waypoint, then sleeps; the next step's row is written only when the
\* broadcast of the step before has returned, whatever else runs in between.
C2_StepOrder ==
    /\ Len(tracking) = Len(published)
    /\ \A t \in Tasks :
          LET r == run[t]
          IN  r.pc # "idle" =>
                /\ r.pc # "failed"
                /\ Cardinality(CallsOf(t)) = IF r.pc = "sending" THEN r.i + 1 ELSE r.i
                /\ \A k \in CallsOf(t) :
                      /\ published[k].msg.waypoint = Cardinality({j \in CallsOf(t) : j <= k})
                      /\ tracking[k].order_id = r.order_id
                      /\ tracking[k].latitude = published[k].msg.latitude
                      /\ tracking[k].longitude = published[k].msg.longitude
                      /\ tracking[k].battery_level = published[k].msg.battery_level
                      /\ tracking[k].status = published[k].msg.status
                      /\ tracking[k].latitude = r.waypoints[published[k].msg.waypoint].latitude
                      /\ (bc[t].call # k => CallComplete(k))
                /\ r.pc = "sending" =>
                      /\ bc[t].pc = "sending"
                      /\ bc[t].call \in CallsOf(t)
                      /\ published[bc[t].call].msg.waypoint = r.i + 1
                /\ (r.pc \in {"sleeping", "done"} /\ r.i > 0) => bc[t].pc = "returned"

\* two runs are under way at once: one is inside the broadcast of its second step,
\* with the first step's send made, the other has persisted a row too
C2_Witness ==
    \E t \in Tasks, u \in Tasks :
        /\ t # u
        /\ run[t].pc = "sending" /\ run[t].i = 1
        /\ run[u].pc \in {"sending", "sleeping"}
        /\ \E ws \in Sockets : \E k \in 1..Len(sent[ws]) : published[sent[ws][k].call].task = t

\* ws is in the list of an order other than o (websocket_tracking registers a
\* WebSocket object once, for one order)
RegisteredElsewhere(ws, o) ==
    \E p \in DOMAIN active_connections : p # o /\ InList(active_connections[p], ws)

\* C3, as claimed: a broadcast makes exactly one send to every connection that was
\* in the order's list when it was called, none to a connection that is not
\* registered for that order, and with no subscriber (no key, or a key with an empty
\* list) it sends nothing; it raises nothing.
C3_Claim ==
    /\ \A t \in Tasks : bc[t].pc # "raised"
    /\ \A c \in 1..Len(published) : \A ws \in Sockets :
          /\ InList(published[c].atcall, ws) =>
                /\ CallCount(ws, c) <= 1
                /\ CallComplete(c) => CallCount(ws, c) = 1
          /\ RegisteredElsewhere(ws, published[c].order) => CallCount(ws, c) = 0
          /\ published[c].atcall = <<>> => CallCount(ws, c) = 0 /\ CallComplete(c)
          /\ \A k \in 1..Len(sent[ws]) : sent[ws][k].call = c => sent[ws][k].msg = published[c].msg

\* ws has a send for call c that raised
SendFailed(ws, c) == \E k \in 1..Len(sent[ws]) : sent[ws][k].call = c /\ ~sent[ws][k].ok

\* C4: when the send to one connection fails, the other connections of the order
\* are still sent the message, the broadcast returns to its caller, which goes on,
\* and the failing connection stays in the registry.
C4_FailureIsolated ==
    \A c \in 1..Len(published) : \A ws \in Sockets :
        SendFailed(ws, c) =>
            /\ Registered(ws, published[c].order)
            /\ bc[published[c].task].pc # "raised"
            /\ run[published[c].task].pc # "failed"
            /\ CallComplete(c) =>
                  /\ run[published[c].task].i >= published[c].msg.waypoint
                  /\ \A other \in Sockets :
                        (other # ws /\ InList(published[c].atcall, other)) =>
                            CallCount(other, c) = 1

\* a broadcast is over in which the send to the first connection failed and the
\* send to the second went through
C4_Witness ==
    \E c \in 1..Len(published) :
        /\ CallComplete(c)
        /\ Len(published[c].atcall) = 2
        /\ SendFailed(published[c].atcall[1], c)
        /\ \E k \in 1..Len(sent[published[c].atcall[2]]) :
              sent[published[c].atcall[2]][k].call = c /\ sent[published[c].atcall[2]][k].frame

\* C5, as claimed: disconnect never raises, whatever connection and order it is given.
C5_Claim == raised # "ValueError"

\* C6, as claimed: a connection whose peer has gone is out of the registry before the
\* next broadcast to its order starts, so no broadcast starts with it in the list.
C6_Claim ==
    [][Len(published') = Len(published) + 1 =>
          \A k \in 1..Len(published'[Len(published')].atcall) :
              client[published'[Len(published')].atcall[k]] # "closed"]_vars

\* C7, as claimed: a connection is sent only messages of broadcasts that were called
\* while it was registered for the order.
C7_Claim ==
    \A ws \in Sockets : \A k \in 1..Len(sent[ws]) :
        InList(published[sent[ws][k].call].atcall, ws)

\* C8, as claimed: with connects and disconnects running while a broadcast is
\* suspended, every connection that stays registered for the whole broadcast is sent
\* the message exactly once, and nothing is raised.
C8_Claim ==
    /\ \A t \in Tasks : bc[t].pc # "raised"
    /\ \A c \in 1..Len(published) : \A ws \in Sockets :
          (InList(published[c].atcall, ws) /\ Registered(ws, published[c].order)) =>
              /\ CallCount(ws, c) <= 1
              /\ CallComplete(c) => CallCount(ws, c) = 1

\* |x| and x <= y on dyadic rationals
DyAbs(x) == [x EXCEPT !.neg = FALSE]
DyLeq(x, y) == ~DyAdd(y, DyNeg(x)).neg

\* the result of a call with num_points >= 1: num_points + 1 waypoints, numbered
\* 0..num_points, the first one at the start coordinate
GwShape ==
    /\ gw.result.returned /\ gw.result.raised = "none"
    /\ Len(gw.result.waypoints) = gw.num_points + 1
    /\ \A k \in 1..Len(gw.result.waypoints) : gw.result.waypoints[k].sequence = k - 1
    /\ gw.result.waypoints[1].latitude = gw.start_lat
    /\ gw.result.waypoints[1].longitude = gw.start_lng

GwLast == gw.result.waypoints[Len(gw.result.waypoints)]

\* the float x is y up to the rounding of one subtraction and one addition
GwClose(x, from, to) ==
    DyLeq(DyAbs(DyAdd(x, DyNeg(to))), DyMul(FScaled(1, -51), DyAdd(DyAbs(from), DyAbs(to))))

\* C9, as claimed: for num_points >= 1 the result has num_points + 1 waypoints numbered
\* 0..num_points, the first at the start coordinate and the last at the end coordinate.
C9_Claim ==
    (gw.pc = "done" /\ gw.num_points >= 1) =>
        /\ GwShape
        /\ GwLast.latitude = gw.end_lat
        /\ GwLast.longitude = gw.end_lng

\* C9, amended: the same, with the last waypoint at the end coordinate up to
\* floating-point rounding: |last - end| <= 2^-51 * (|start| + |end|).
C9_Waypoints ==
    (gw.pc = "done" /\ gw.num_points >= 1) =>
        /\ GwShape
        /\ GwClose(GwLast.latitude, gw.start_lat, gw.end_lat)
        /\ GwClose(GwLast.longitude, gw.start_lng, gw.end_lng)

\* a call with num_points >= 2 has returned, and its last waypoint's latitude is not
\* the end latitude
C9_Witness ==
    /\ gw.pc = "done" /\ gw.num_points >= 2
    /\ Len(gw.result.waypoints) = gw.num_points + 1
    /\ GwLast.latitude # gw.end_lat
    /\ GwLast.longitude = gw.end_lng

\* C10, as claimed: with num_points = 0 the call raises a validation error and
\* returns no list.
C10_Claim ==
    (gw.pc = "done" /\ gw.num_points = 0) =>
        /\ gw.result.raised = "ValidationError"
        /\ ~gw.result.returned

\* the delivery_routes rows of order o, in commit order, and the number of first
\* samples ("taking_off") of order o in delivery_tracking
RoutesOf(o) == SelectSeq(routes, LAMBDA r : r.order_id = o)
TakeOffs(o) == Cardinality({k \in 1..Len(tracking) :
                              tracking[k].order_id = o /\ tracking[k].status = "taking_off"})

\* C11, as claimed: the waypoints of a route and its first sample are stored as one
\* unit, so in every state every stored route is whole and has its first sample:
\* an order has TrackingPoints + 1 waypoint rows for each of its first samples.
C11_Claim ==
    \A o \in Orders : Len(RoutesOf(o)) = (TrackingPoints + 1) * TakeOffs(o)

\* C12, as claimed: the waypoint rows stored for an order have pairwise distinct
\* sequence numbers, which run from 0 to N without a gap.
C12_Claim ==
    \A o \in Orders :
        LET rows == RoutesOf(o)
        IN  /\ \A j \in 1..Len(rows), k \in 1..Len(rows) :
                  j # k => rows[j].waypoint_sequence # rows[k].waypoint_sequence
            /\ \A k \in 1..Len(rows) :
                  \E j \in 1..Len(rows) : rows[j].waypoint_sequence = k - 1

\* what a start_tracking call for order o with order document order has added to
\* the tables rts and trk, which held nr and nt rows before: TrackingPoints + 1
\* waypoints numbered from 0, the first at the start coordinate, and one first sample
StartedShape(o, order, rts, trk, nr, nt) ==
    /\ Len(rts) = nr + TrackingPoints + 1
    /\ Len(trk) = nt + 1
    /\ \A k \in 1..(TrackingPoints + 1) :
          /\ rts[nr + k].order_id = o
          /\ rts[nr + k].drone_id = order.drone_id
          /\ rts[nr + k].waypoint_sequence = k - 1
    /\ rts[nr + 1].latitude = OrderPlace(order).restaurant_lat
    /\ rts[nr + 1].longitude = OrderPlace(order).restaurant_lng
    /\ trk[nt + 1].order_id = o
    /\ trk[nt + 1].latitude = OrderPlace(order).restaurant_lat
    /\ trk[nt + 1].longitude = OrderPlace(order).restaurant_lng
    /\ trk[nt + 1].status = "taking_off"
    /\ trk[nt + 1].altitude = 0
    /\ trk[nt + 1].speed = 0

\* C13, as claimed: a successful start_tracking stores 16 waypoints numbered 0..15,
\* the first at the start and the last at the end coordinate, and one first sample
\* at the start coordinate with status "taking_off", altitude 0, speed 0, battery 100.
C13_Claim ==
    [][\A o \in Orders, auth \in Roles, order \in OrderInputs :
          (StartTracking(o, auth, "ok", order, "ok", "ok") /\ http'.status = 200) =>
              /\ StartedShape(o, order, routes', tracking', Len(routes), Len(tracking))
              /\ routes'[Len(routes')].latitude = OrderPlace(order).delivery_lat
              /\ routes'[Len(routes')].longitude = OrderPlace(order).delivery_lng
              /\ tracking'[Len(tracking')].battery_level = FromInt(100)]_vars

\* C13, amended: the same, with the last waypoint at the end coordinate up to
\* floating-point rounding (exactly there for the default coordinates), and with the
\* battery level of the order document where it has one, 100 where it has none.
C13_StartTracking ==
    [][\A o \in Orders, auth \in Roles, order \in OrderInputs :
          (StartTracking(o, auth, "ok", order, "ok", "ok") /\ http'.status = 200) =>
              /\ StartedShape(o, order, routes', tracking', Len(routes), Len(tracking))
              /\ GwClose(routes'[Len(routes')].latitude,
                         OrderPlace(order).restaurant_lat, OrderPlace(order).delivery_lat)
              /\ GwClose(routes'[Len(routes')].longitude,
                         OrderPlace(order).restaurant_lng, OrderPlace(order).delivery_lng)
              /\ ~order.has_place =>
                    /\ routes'[Len(routes')].latitude = DefaultPlace.delivery_lat
                    /\ routes'[Len(routes')].longitude = DefaultPlace.delivery_lng
              /\ tracking'[Len(tracking')].battery_level =
                    IF order.has_battery THEN order.battery_level ELSE FromInt(100)]_vars

\* a start_tracking call has been answered with 200 for an order document with its
\* own coordinates and battery level: 16 waypoints and a first sample with battery 80
\* are stored, and the last waypoint's latitude is not bit-equal to the end latitude
C13_Witness ==
    /\ http.op = "start_tracking" /\ http.status = 200 /\ http.rows = TrackingPoints + 2
    /\ Len(routes) = TrackingPoints + 1
    /\ routes[1].waypoint_sequence = 0 /\ routes[Len(routes)].waypoint_sequence = TrackingPoints
    /\ routes[Len(routes)].latitude # FDecimal(FALSE, 25216795, 6)
    /\ routes[1].latitude = FDecimal(TRUE, 78573007, 6)
    /\ tracking[Len(tracking)].status = "taking_off"
    /\ tracking[Len(tracking)].battery_level = FromInt(80)

\* the endpoints that change drone or tracking state
MutatingOps ==
    {"start_tracking", "update_position", "update_drone_status",
     "schedule_maintenance", "complete_maintenance", "log_battery_status", "resolve_alert"}

\* a request without a usable token, and one whose user has not the role the
\* endpoint is for (admin for the maintenance endpoints and resolve_alert; admin or
\* restaurant, of the roles here, for the others)
Unauthenticated(auth) == auth \in {"missing", "rejected", "unreachable"}
Insufficient(op, auth) ==
    \/ auth = "customer"
    \/ auth = "restaurant" /\ op \in {"schedule_maintenance", "complete_maintenance", "resolve_alert"}

\* C14, as claimed: a request to a mutating endpoint without a valid token, or with
\* a role that is not enough, is answered 401 or 403 and has stored no row and made
\* no broadcast.
C14_Claim ==
    (http.op \in MutatingOps /\ (Unauthenticated(http.auth) \/ Insufficient(http.op, http.auth))) =>
        /\ http.status \in {401, 403}
        /\ http.rows = 0
        /\ http.call = 0

\* C15, as claimed: a request during which the user service or the order service
\* could not be reached, or the order service answered with a status other than
\* 200, is answered 503 and has stored nothing. (A status other than 200 from the
\* user service is left out here: that is also how a bad token shows.)
C15_Claim ==
    (http.status # 0 /\ (http.auth = "unreachable" \/ http.upstream \in {"non200", "unreachable"})) =>
        /\ http.status = 503
        /\ http.rows = 0

\* the row and the message carry the same position
SamePosition(row, msg) ==
    /\ msg.type = "position_update"
    /\ msg.order_id = row.order_id
    /\ msg.latitude = row.latitude
    /\ msg.longitude = row.longitude
    /\ msg.altitude = row.altitude
    /\ msg.speed = row.speed
    /\ msg.battery_level = row.battery_level
    /\ msg.status = row.status

\* C16: an update_position that stores its row (the order lookup went through and
\* db.commit() did) appends one row and makes one broadcast call for the row's order
\* with the row's position; the sends of that call come when the row is stored; a
\* call whose lookup failed is answered 503, and one whose commit failed 500: they
\* append nothing and publish nothing.
C16_UpdatePosition ==
    [][/\ (http'.op = "update_position" /\ http'.upstream = "ok" /\ http'.status # 500
              /\ (http' # http \/ tracking' # tracking)) =>
              /\ Len(tracking') = Len(tracking) + 1
              /\ Len(published') = Len(published) + 1
              /\ http'.id = tracking'[Len(tracking')].order_id
              /\ http'.row = Len(tracking') /\ http'.call = Len(published') /\ http'.rows = 1
              /\ published'[Len(published')].order = http'.id
              /\ SamePosition(tracking'[Len(tracking')], published'[Len(published')].msg)
       /\ (http'.op = "update_position" /\ http'.upstream # "ok" /\ http' # http) =>
              /\ http'.status = 503 /\ http'.rows = 0
              /\ tracking' = tracking /\ published' = published /\ sent' = sent
       /\ (http'.op = "update_position" /\ http'.status = 500 /\ http' # http) =>
              /\ http'.upstream = "ok" /\ http'.rows = 0
              /\ tracking' = tracking /\ published' = published /\ sent' = sent
       /\ (tracking' # tracking \/ published' # published) =>
              (http'.op = "update_position" /\ http'.upstream = "ok")
       /\ \A ws \in Sockets : \A k \in 1..Len(sent'[ws]) :
              /\ sent'[ws][k].call <= Len(tracking')
              /\ SamePosition(tracking'[sent'[ws][k].call], sent'[ws][k].msg)
       /\ \A t \in Tasks : upd'[t].pc # "failed"]_vars

\* an update_position with a status of its own has been answered, its row is
\* stored, and a subscriber of the order was sent its event
C16_Witness ==
    \E t \in Tasks :
        /\ upd[t].pc = "returned"
        /\ tracking[upd[t].row].status = "in_flight"
        /\ \E ws \in Sockets : \E k \in 1..Len(sent[ws]) :
              /\ sent[ws][k].call = upd[t].call
              /\ sent[ws][k].frame
              /\ sent[ws][k].msg.status = "in_flight"

\* C17, as claimed: every history row written by update_drone_status (the rows with
\* a previous_status) names as previous_status the status of the drone's most recent
\* row among those stored before it, "unknown" when there is none. Where several
\* such rows share the latest changed_at, the status of any of them is accepted.
C17_Claim ==
    \A k \in 1..Len(history) :
        history[k].previous_status # "None" =>
            history[k].previous_status
                \in LatestStatus(SubSeq(history, 1, k - 1), history[k].drone_id)

\* the run of task t is under way
InProgress(t) == run[t].pc \in {"ready", "sending", "sleeping"}

\* a request to simulate_delivery for the order of run t, given the free task u, is
\* answered 200 and creates a run of that order, wherever the close of its Session falls
SecondRunStarts(t, u) ==
    \A close \in CloseInputs :
        ENABLED (/\ SimulateDelivery(u, run[t].order_id, close)
                 /\ http'.status = 200
                 /\ run'[u].pc = "ready"
                 /\ run'[u].order_id = run[t].order_id)

\* task u is free while run t is under way
FreeBeside(t, u) ==
    /\ InProgress(t) /\ run[u].pc = "idle" /\ bc[u].pc = "idle" /\ upd[u].pc = "idle"
    /\ \A v \in Tasks : v < u => run[v].pc # "idle"

Landings == {k \in 1..Len(tracking) : tracking[k].status = "landing"}

\* C19: in a run over waypoints 0..N the row and the event of waypoint i have
\* altitude 50 + (i mod 10) and speed 25 + (i mod 15), status "in_flight" for i < N
\* and "landing" for i = N, so "landing" comes once, last, for a route of one
\* waypoint too.
C19_StepFields ==
    LET r == run[1]
        N == Len(r.waypoints) - 1
    IN  /\ \A k \in 1..Len(tracking) :
              /\ tracking[k].altitude = 50 + ((k - 1) % 10)
              /\ tracking[k].speed = 25 + ((k - 1) % 15)
              /\ tracking[k].status = IF k - 1 < N THEN "in_flight" ELSE "landing"
              /\ published[k].msg.altitude = tracking[k].altitude
              /\ published[k].msg.speed = tracking[k].speed
              /\ published[k].msg.status = tracking[k].status
              /\ published[k].msg.total_waypoints = N + 1
        /\ Landings \subseteq {N + 1}
        /\ r.pc = "done" => Landings = {Len(tracking)}

\* a run over 16 waypoints is over: its last row is the one landing, with the
\* altitude and the speed of index 15, and the row before is in flight
C19_Witness ==
    /\ run[1].pc = "done"
    /\ Len(tracking) = 16
    /\ tracking[16].status = "landing" /\ tracking[16].altitude = 55 /\ tracking[16].speed = 25
    /\ tracking[15].status = "in_flight" /\ tracking[15].altitude = 54 /\ tracking[15].speed = 39
    /\ published[16].msg.status = "landing"

\* order o has a stored route
HasRoute(o) == \E k \in 1..Len(routes) : routes[k].order_id = o

\* C20, as claimed: a run that simulate_delivery has started reaches its end, the
\* task's exit after the pass of the last waypoint, whatever the subscriber does
\* meanwhile (db.commit() never fails here); and simulate_delivery for an order
\* without a stored route answers 404 and starts no run, while for an order with
\* one it starts a run over the order's rows.
C20_Claim ==
    /\ [][\A o \in Orders, close \in CloseInputs :
             SimulateDelivery(1, o, close) =>
                 IF HasRoute(o)
                 THEN /\ http'.status = 200
                      /\ run'[1].pc = "ready" /\ run'[1].order_id = o
                      /\ Len(run'[1].waypoints) =
                             Cardinality({k \in 1..Len(routes) : routes[k].order_id = o})
                 ELSE /\ http'.status = 404
                      /\ run' = run /\ tracking' = tracking /\ published' = published]_vars
    /\ InProgress(1) ~> run[1].pc = "done"

\* success_rate of every stored row is within 0..100
C21_Range ==
    \A d \in Drones :
        performance[d].some =>
            /\ DyLeq(FZero, performance[d].success_rate)
            /\ DyLeq(performance[d].success_rate, FromInt(100))

\* the rate a call with deliveries_completed > 0 is to leave: the successes implied
\* by the delivery total and the rate before the call, plus this delivery's outcome,
\* over the total after the call
C21_Expected(before, after, success) ==
    FMul(PyTrueDiv(ImpliedSuccesses(before.total_deliveries, before.success_rate)
                       + (IF success THEN 1 ELSE 0),
                   after.total_deliveries),
         FromInt(100))

\* C21: after any sequence of update_performance calls on a drone that starts from
\* the default row (0 deliveries, success_rate 100), success_rate is within 0..100,
\* and a call with deliveries_completed > 0 leaves (implied prior successes, plus 1
\* if success) / total_deliveries * 100, the prior successes being derived from the
\* delivery total before the call.
C21_Claim ==
    /\ []C21_Range
    /\ [][\A d \in Drones, deliveries_completed \in DeliveryInputs, flight \in FlightInputs,
             success \in BOOLEAN :
             (/\ deliveries_completed > 0
              /\ UpdatePerformance(d, deliveries_completed, flight, success, "ok")
              /\ http'.status = 200)
             => performance'[d].success_rate =
                    C21_Expected(performance[d], performance'[d], success)]_vars

====
